---------------------------- MODULE Spec2Model ----------------------------
(***************************************************************************)
(* Inland supply-chain tracking: the weekly history tables kept by         *)
(* barge_monitor.py and rail_monitor.py, the as-of lookup and 28-day       *)
(* deltas of backfill_risk.py, and the composite risk scorer of            *)
(* generate_risk.py / backfill_risk.py.                                    *)
(*                                                                         *)
(* Units.  Stage (ft) and dwell (h) are carried in hundredths, so that     *)
(* -2.0 ft is -200 and -2.01 ft is -201; lock counts and scores are        *)
(* carried as they are.  A date string "YYYY-MM-DD" is the triple          *)
(* <<year, month, day>>; the string order pandas and Python use on it is   *)
(* the lexicographic order StrDateLt.                                      *)
(***************************************************************************)
EXTENDS Integers, Sequences, FiniteSets, TLC

VARIABLES
    \* ---- ingestion (barge_monitor.py, rail_monitor.py) ----
    pc,             \* the monitor whose main() is running, or "exit"
    locksFile,      \* rows of data/history/barge_locks27_weekly.csv
    ratesFile,      \* rows of data/history/barge_rates_weekly.csv
    railFile,       \* rows of data/history/rail_weekly.csv
    locks,          \* fetch_locks27() of the run
    rates,          \* fetch_rates() of the run
    clean,          \* melt_wide() of the run
    loaded,         \* what load_csv / load_hist read when the run merged
    xlsx,           \* the Locks 27 workbook as read_excel gives it
    \* ---- backfill (backfill_risk.py) ----
    river_hist,     \* fetch_river_history(): date string -> stage
    loop_i,         \* the loop index i of main
    res,            \* compute_daily_risk of the day handled last
    out_rows,       \* the rows collected so far (rows of main)
    riskFile,       \* rows of data/history/risk_daily.csv
    \* ---- live scoring (generate_risk.py) ----
    river_status,   \* data/river_status.json
    rail_status,    \* data/rail_status.json
    barge_status,   \* data/barge_status.json
    out,            \* the snapshot main builds, or that main raised
    riskJson,       \* data/risk.json: whether it exists, and its text
    written         \* the last call of write_if_changed, <<>> before any

ingestVars == <<locks, rates, clean, loaded, ratesFile>>

fileVars == <<locksFile, railFile>>

backfillVars == <<river_hist, loop_i, res, out_rows, riskFile>>

statusVars == <<river_status, rail_status, barge_status>>

writeVars == <<riskJson, written>>

vars == <<pc, fileVars, ingestVars, backfillVars, statusVars, out, xlsx, writeVars>>

(***************************************************************************)
(* Values a cell can hold.  NaN is pandas' missing float (pd.NA written to  *)
(* and read back from the csv): arithmetic on it gives NaN and every       *)
(* comparison with it is false.  It is carried as a number no measurement  *)
(* takes.                                                                  *)
(***************************************************************************)
NaN == -999999

\* Rows one run may fetch, over all the tables of that run.
MaxRows == 2

\* Rows the history files of one monitor may hold when a run starts.
MaxStored == 2

\* week_end_date strings the sources publish; they straddle a year end, so
\* that string order is decided by the year before the month.
Weeks == {<<2025, 12, 27>>, <<2026, 1, 3>>}

\* Strings in the order Python compares them.
StrOrder == <<"BNSF", "CAIRO", "STL", "UP">>

CARRIERS == {"UP", "BNSF"}

Origins == {"CAIRO", "STL"}

BargeCounts == {310, 295}

RateValues == {1200, 1350}

DwellValues == {2310, 2480, NaN}

StrRank(a) == CHOOSE i \in 1..Len(StrOrder) : StrOrder[i] = a

StrLt(a, b) == StrRank(a) < StrRank(b)

StrDateLt(a, b) ==
    \/ a[1] < b[1]
    \/ a[1] = b[1] /\ a[2] < b[2]
    \/ a[1] = b[1] /\ a[2] = b[2] /\ a[3] < b[3]

StrDateLeq(a, b) == a = b \/ StrDateLt(a, b)

ColLt(col, a, b) ==
    IF col = "week_end_date" THEN StrDateLt(a, b) ELSE StrLt(a, b)

\* Rows compare by the key columns in turn.
RowLt(keys, a, b) ==
    \E i \in 1..Len(keys) :
        /\ ColLt(keys[i], a[keys[i]], b[keys[i]])
        /\ \A j \in 1..(i - 1) : a[keys[j]] = b[keys[j]]

SameKey(keys, a, b) == \A i \in 1..Len(keys) : a[keys[i]] = b[keys[i]]

\* The indices of s for which keep holds, in order, as a sequence of rows.
RECURSIVE Pick(_, _, _)
Pick(s, keepIdx, i) ==
    IF i > Len(s) THEN <<>>
    ELSE (IF i \in keepIdx THEN <<s[i]>> ELSE <<>>) \o Pick(s, keepIdx, i + 1)

\* A plausible slip: keep="first".
drop_duplicates_first(rows, keys) ==
    Pick(rows,
         {i \in 1..Len(rows) :
             \A j \in 1..(i - 1) : ~SameKey(keys, rows[i], rows[j])},
         1)

\* DataFrame.drop_duplicates(subset=keys, keep="last")
drop_duplicates(rows, keys) ==
    Pick(rows,
         {i \in 1..Len(rows) :
             \A j \in (i + 1)..Len(rows) : ~SameKey(keys, rows[i], rows[j])},
         1)

\* A plausible slip: the table is sorted by its first key column only.
sort_values_first_key(rows, keys) ==
    LET n == Len(rows)
        k == <<keys[1]>>
        pos(i) == 1 + Cardinality({j \in 1..n :
                        \/ RowLt(k, rows[j], rows[i])
                        \/ ~RowLt(k, rows[i], rows[j]) /\ j < i})
    IN  [p \in 1..n |-> rows[CHOOSE i \in 1..n : pos(i) = p]]

\* DataFrame.sort_values(keys): ascending by the key columns; rows with equal
\* keys keep their order (every caller sorts after drop_duplicates, so no two
\* rows have equal keys when the table has more than one key column).
sort_values(rows, keys) ==
    LET n == Len(rows)
        pos(i) == 1 + Cardinality({j \in 1..n :
                        \/ RowLt(keys, rows[j], rows[i])
                        \/ ~RowLt(keys, rows[i], rows[j]) /\ j < i})
    IN  [p \in 1..n |-> rows[CHOOSE i \in 1..n : pos(i) = p]]

\* A plausible slip: the concatenation is sorted without being deduplicated.
update_history_no_dedup(new_df, hist, keys) == sort_values(hist \o new_df, keys)

\* barge_monitor.update_history: the table written to path (and returned).
\* hist is load_csv(path): the stored rows, none when the file is missing.
update_history(new_df, hist, keys) ==
    sort_values(drop_duplicates(hist \o new_df, keys), keys)

\* rail_monitor.update_hist: the same merge on (week_end_date, carrier).
update_hist(new_df, hist) ==
    sort_values(drop_duplicates(hist \o new_df, <<"week_end_date", "carrier">>),
                <<"week_end_date", "carrier">>)

LocksKeys == <<"week_end_date">>

RatesKeys == <<"week_end_date", "origin">>

RailKeys == <<"week_end_date", "carrier">>

LocksRows == [week_end_date : Weeks, total_barges : BargeCounts]

RatesRows == [week_end_date : Weeks, origin : Origins, rate_usd_per_ton : RateValues]

RailRows == [week_end_date : Weeks, carrier : CARRIERS, terminal_dwell_hours : DwellValues]

SeqsUpTo(S, n) == UNION {[1..k -> S] : k \in 0..n}

\* One row per key, ascending by key.
StrictlyAscending(rows, keys) ==
    \A i \in 1..(Len(rows) - 1) : RowLt(keys, rows[i], rows[i + 1])

\* melt_wide ends in pivot_table(index = [week_end_date, carrier]): one row
\* per (week, carrier), in ascending index order.
IsPivot(rows) == StrictlyAscending(rows, RailKeys)

\* The tables earlier runs can have left in a history file (every one of
\* them is what update_history writes for some earlier batches), none when the
\* monitor has not run yet.
Stored(Rows, keys, n) == {s \in SeqsUpTo(Rows, n) : StrictlyAscending(s, keys)}

NoHist == [locks |-> <<>>, rates |-> <<>>, rail |-> <<>>]

\* No workbook read.
NoSheet == <<>>

\* A path at which no file exists.
NoFile == [exists |-> FALSE]

\* No workbook is being read and data/risk.json is not looked at.
OtherIdle ==
    /\ xlsx = NoSheet
    /\ riskJson = NoFile
    /\ written = <<>>

\* A barge run starts: both sources are fetched (barge_monitor.py 139-140).
BargeStart ==
    /\ pc = "barge_monitor"
    /\ \E nl \in 0..MaxRows :
         /\ locks \in [1..nl -> LocksRows]
         /\ rates \in SeqsUpTo(RatesRows, MaxRows - nl)
    /\ \E ns \in 0..MaxStored :
         /\ locksFile \in Stored(LocksRows, LocksKeys, ns)
         /\ ratesFile \in Stored(RatesRows, RatesKeys, MaxStored - ns)
    /\ railFile = <<>>
    /\ clean = <<>>
    /\ loaded = NoHist
    /\ OtherIdle

\* A rail run starts: the workbook is fetched and reshaped (rail_monitor.py
\* 270-274).
RailStart ==
    /\ pc = "rail_monitor"
    /\ clean \in {s \in SeqsUpTo(RailRows, MaxRows) : IsPivot(s)}
    /\ railFile \in Stored(RailRows, RailKeys, MaxStored)
    /\ locksFile = <<>>
    /\ ratesFile = <<>>
    /\ locks = <<>>
    /\ rates = <<>>
    /\ loaded = NoHist
    /\ OtherIdle

\* backfill_risk.py is not running.
BackfillIdle ==
    /\ river_hist = <<>>
    /\ loop_i = 0
    /\ res = <<>>
    /\ out_rows = <<>>
    /\ riskFile = <<>>

\* A snapshot not built yet.
NotRun == [raised |-> FALSE, pending |-> TRUE]

\* generate_risk.py is not running and no status file is looked at.
ScoreIdle ==
    /\ river_status = [t |-> "missing"]
    /\ rail_status = [t |-> "missing"]
    /\ barge_status = [t |-> "missing"]
    /\ out = NotRun

IngestInit == (BargeStart \/ RailStart) /\ BackfillIdle /\ ScoreIdle

\* barge_monitor.main: merge each fetched table into its history file.
BargeMain ==
    /\ pc = "barge_monitor"
    /\ locksFile' = update_history(locks, locksFile, LocksKeys)
    /\ ratesFile' = update_history(rates, ratesFile, RatesKeys)
    /\ loaded' = [loaded EXCEPT !.locks = locksFile, !.rates = ratesFile]
    /\ pc' = "exit"
    /\ UNCHANGED <<railFile, locks, rates, clean, backfillVars, statusVars, out, xlsx, writeVars>>

\* rail_monitor.main: merge the reshaped workbook into the history file.
RailMain ==
    /\ pc = "rail_monitor"
    /\ railFile' = update_hist(clean, railFile)
    /\ loaded' = [loaded EXCEPT !.rail = railFile]
    /\ pc' = "exit"
    /\ UNCHANGED <<locksFile, ratesFile, locks, rates, clean, backfillVars,
                   statusVars, out, xlsx, writeVars>>

IngestNext == BargeMain \/ RailMain

SpecIngest == IngestInit /\ [][IngestNext]_vars

(***************************************************************************)
(* backfill_risk.py.  A datetime is carried as its day number, day 0 being *)
(* 2025-01-01; strftime("%Y-%m-%d") turns it into the date string.         *)
(***************************************************************************)

\* None, as dict.get and a null of a status document give it.
None == -888888

DAYS_BACK == 90

\* datetime.now() of the backfill run: 2026-02-10.
Today == 405

\* Days before the months of a year without a leap day (2025, 2026).
DaysBefore == <<0, 31, 59, 90, 120, 151, 181, 212, 243, 273, 304, 334, 365>>

\* datetime.strftime("%Y-%m-%d")
strftime(dt) ==
    LET doy == dt % 365
        mon == CHOOSE m \in 1..12 : DaysBefore[m] <= doy /\ doy < DaysBefore[m + 1]
    IN  <<2025 + (dt \div 365), mon, doy - DaysBefore[mon] + 1>>

\* float - float
Sub(a, b) == IF a = NaN \/ b = NaN THEN NaN ELSE a - b

\* float < float, float > float: false on NaN
Lt(a, b) == a # NaN /\ b # NaN /\ a < b

Gt(a, b) == a # NaN /\ b # NaN /\ a > b

\* A plausible slip: rows strictly before date_str.
get_as_of_before(df, date_str, val_col) ==
    IF df = <<>> THEN 0
    ELSE LET past == SelectSeq(df, LAMBDA r : StrDateLt(r.week_end_date, date_str))
         IN  IF past = <<>> THEN df[1][val_col] ELSE past[Len(past)][val_col]

\* backfill_risk.get_as_of
get_as_of(df, date_str, val_col) ==
    IF df = <<>> THEN 0
    ELSE LET past == SelectSeq(df, LAMBDA r : StrDateLeq(r.week_end_date, date_str))
         IN  IF past = <<>> THEN df[1][val_col] ELSE past[Len(past)][val_col]

\* A plausible slip: the earlier value minus the later one.
delta_4w_reversed(df, target_date, val_col) ==
    LET curr == get_as_of(df, strftime(target_date), val_col)
        past == get_as_of(df, strftime(target_date - 28), val_col)
    IN  [curr |-> curr, past |-> past, delta |-> Sub(past, curr)]

\* compute_daily_risk, the rail and barge inputs: the value known on the day,
\* the value known 28 days before, and their difference.
delta_4w(df, target_date, val_col) ==
    LET curr == get_as_of(df, strftime(target_date), val_col)
        past == get_as_of(df, strftime(target_date - 28), val_col)
    IN  [curr |-> curr, past |-> past, delta |-> Sub(curr, past)]

\* dict.get(key)
DictGet(dict, key) == IF key \in DOMAIN dict THEN dict[key] ELSE None

\* compute_daily_risk, the river inputs.
river_inputs(target_date, hist) ==
    LET r_val == DictGet(hist, strftime(target_date))
        r_prev == DictGet(hist, strftime(target_date - 7))
    IN  [r_val |-> r_val,
         r_delta |-> IF r_val # None /\ r_prev # None THEN Sub(r_val, r_prev) ELSE 0]

\* A plausible slip: the drop rule fires at -2.0 too.
backfill_river_score_le(r_val, r_delta) ==
    IF r_val # None
    THEN (IF r_delta # NaN /\ r_delta <= -200 THEN 20 ELSE 0)
         + (IF Lt(r_val, 0) THEN 20 ELSE 0)
    ELSE 0

\* compute_daily_risk, river score (stage in hundredths of a foot).
backfill_river_score(r_val, r_delta) ==
    IF r_val # None
    THEN (IF Lt(r_delta, -200) THEN 20 ELSE 0) + (IF Lt(r_val, 0) THEN 20 ELSE 0)
    ELSE 0

\* compute_daily_risk, rail score (dwell in hundredths of an hour).
backfill_rail_score(rail_delta) ==
    IF Gt(rail_delta, 200) THEN 30 ELSE IF Gt(rail_delta, 50) THEN 15 ELSE 0

\* compute_daily_risk, barge score (lock count).
backfill_barge_score(barge_delta) ==
    IF Lt(barge_delta, -50) THEN 30 ELSE IF Lt(barge_delta, -20) THEN 15 ELSE 0

Min(a, b) == IF a < b THEN a ELSE b

Max(a, b) == IF a > b THEN a ELSE b

\* A plausible slip: the boundaries go to the upper tier.
backfill_level_inclusive(total) ==
    IF total >= 70 THEN "CRITICAL" ELSE IF total >= 40 THEN "MODERATE" ELSE "LOW"

\* compute_daily_risk, the level of a total.
backfill_level(total) ==
    IF total > 70 THEN "CRITICAL" ELSE IF total > 40 THEN "MODERATE" ELSE "LOW"

\* A plausible slip: the last of the entries with the largest score.
MaxByScore_last(drivers) ==
    drivers[CHOOSE k \in 1..Len(drivers) :
                /\ \A j \in 1..Len(drivers) : drivers[j].score <= drivers[k].score
                /\ \A j \in (k + 1)..Len(drivers) : drivers[j].score < drivers[k].score]

\* max(drivers, key = score): the first of the entries with the largest score.
MaxByScore(drivers) ==
    drivers[CHOOSE k \in 1..Len(drivers) :
                /\ \A j \in 1..Len(drivers) : drivers[j].score <= drivers[k].score
                /\ \A j \in 1..(k - 1) : drivers[j].score < drivers[k].score]

\* backfill_risk.compute_daily_risk, with the values it computes on the way.
compute_daily_risk(target_date, hist, rail_df, barge_df) ==
    LET river == river_inputs(target_date, hist)
        rail == delta_4w(rail_df, target_date, "terminal_dwell_hours")
        barge == delta_4w(barge_df, target_date, "total_barges")
        r_score == backfill_river_score(river.r_val, river.r_delta)
        rr_score == backfill_rail_score(rail.delta)
        b_score == backfill_barge_score(barge.delta)
        drivers ==
            (IF r_score > 0 THEN <<[name |-> "river", score |-> r_score]>> ELSE <<>>)
            \o (IF rr_score > 0 THEN <<[name |-> "rail", score |-> rr_score]>> ELSE <<>>)
            \o (IF b_score > 0 THEN <<[name |-> "barge", score |-> b_score]>> ELSE <<>>)
        total == Min(100, r_score + rr_score + b_score)
    IN  [target_date |-> target_date,
         r_val |-> river.r_val, r_delta |-> river.r_delta,
         curr_rail |-> rail.curr, past_rail |-> rail.past, rail_delta |-> rail.delta,
         curr_barge |-> barge.curr, past_barge |-> barge.past,
         barge_delta |-> barge.delta,
         r_score |-> r_score, rr_score |-> rr_score, b_score |-> b_score,
         total |-> total,
         level |-> backfill_level(total),
         primary |-> IF drivers # <<>> THEN MaxByScore(drivers).name ELSE "none"]

\* Observations one backfill run may find, over the three histories.
MaxObs == 2

\* week_end_date strings of the stored histories: before the window, inside
\* it before the year end, and inside it after the year end.
BackfillWeeks == {strftime(Today - 100), strftime(Today - 50), strftime(Today - 20)}

BackfillRailRows ==
    [week_end_date : BackfillWeeks, carrier : {"UP"},
     terminal_dwell_hours : {2300, 2501, NaN}]
    \cup [week_end_date : BackfillWeeks, carrier : {"BNSF"},
          terminal_dwell_hours : {2650}]

BackfillBargeRows == [week_end_date : BackfillWeeks, total_barges : {310, 255}]

\* Days the USGS daily values cover: two of them a week apart.
RiverDates == {strftime(Today - 57), strftime(Today - 50), strftime(Today - 20)}

RiverStages == {250, -50}

\* The risk_daily.csv an earlier run left.
StaleRisk ==
    <<[timestamp_utc |-> strftime(Today - 200), risk_score |-> 15,
       risk_level |-> "LOW", primary_driver |-> "rail"]>>

\* main, lines 142-150: the UP rows of the rail history, by week.
load_rail_df(file) ==
    sort_values(SelectSeq(file, LAMBDA r : r.carrier = "UP"), <<"week_end_date">>)

\* main, lines 152-160: the barge history, by week.
load_barge_df(file) == sort_values(file, <<"week_end_date">>)

\* backfill_risk.main starts: the river history is fetched, the history files
\* are whatever the monitors wrote.
BackfillStart ==
    /\ pc = "backfill_risk"
    /\ \E nr \in 0..MaxObs :
         \E nb \in 0..(MaxObs - nr) :
           \E nv \in 0..(MaxObs - nr - nb) :
             /\ railFile \in {s \in [1..nr -> BackfillRailRows] :
                                 StrictlyAscending(s, RailKeys)}
             /\ locksFile \in {s \in [1..nb -> BackfillBargeRows] :
                                  StrictlyAscending(s, LocksKeys)}
             /\ \E days \in {S \in SUBSET RiverDates : Cardinality(S) = nv} :
                    river_hist \in [days -> RiverStages]
    /\ riskFile = StaleRisk
    /\ loop_i = 0
    /\ res = <<>>
    /\ out_rows = <<>>
    /\ ratesFile = <<>>
    /\ locks = <<>>
    /\ rates = <<>>
    /\ clean = <<>>
    /\ loaded = NoHist
    /\ OtherIdle
    /\ ScoreIdle

\* main, one turn of the loop over the days (lines 167-174).
BackfillDay ==
    /\ pc = "backfill_risk"
    /\ loop_i < DAYS_BACK
    /\ LET target == Today - (DAYS_BACK - loop_i)
           r == compute_daily_risk(target, river_hist,
                                   load_rail_df(railFile), load_barge_df(locksFile))
       IN  /\ res' = r
           /\ out_rows' = Append(out_rows,
                  [timestamp_utc |-> strftime(target), risk_score |-> r.total,
                   risk_level |-> r.level, primary_driver |-> r.primary])
    /\ loop_i' = loop_i + 1
    /\ UNCHANGED <<pc, fileVars, ingestVars, river_hist, riskFile, statusVars, out, xlsx, writeVars>>

\* A plausible slip: the file is opened for appending.
write_rows_append(old_rows, new_rows) == old_rows \o new_rows

\* open(OUT_FILE, "w") and writerows(rows): what the file held is dropped.
write_rows(old_rows, new_rows) == new_rows

\* main, the csv is written over (lines 177-181).
BackfillWrite ==
    /\ pc = "backfill_risk"
    /\ loop_i = DAYS_BACK
    /\ riskFile' = write_rows(riskFile, out_rows)
    /\ pc' = "exit"
    /\ UNCHANGED <<fileVars, ingestVars, river_hist, loop_i, res, out_rows,
                   statusVars, out, xlsx, writeVars>>

BackfillNext == BackfillDay \/ BackfillWrite

SpecBackfill == BackfillStart /\ [][BackfillNext]_vars

(***************************************************************************)
(* generate_risk.py.  A JSON value is a record tagged with its type; a     *)
(* status file that does not exist is JMissing.                            *)
(***************************************************************************)
JMissing == [t |-> "missing"]

JNull == [t |-> "null"]

JNum(x) == [t |-> "num", n |-> x]

JStr(x) == [t |-> "str", s |-> x]

JDict(f) == [t |-> "dict", d |-> f]

EmptyDict == JDict(<<>>)

IsDict(x) == x.t = "dict"

\* dict.get(key, default)
PyGet(x, key, default) == IF key \in DOMAIN x.d THEN x.d[key] ELSE default

\* bool(x)
Truthy(x) ==
    CASE x.t = "num" -> x.n # 0
      [] x.t = "str" -> x.s # ""
      [] x.t = "dict" -> DOMAIN x.d # {}
      [] OTHER -> FALSE

\* float(x) raises on what is no number
FloatRaises(x) == x.t # "num"

\* load_json(path) or {}
load_json_or_empty(doc) == IF ~Truthy(doc) THEN EmptyDict ELSE doc

\* A plausible slip: min and max with their bounds swapped.
clamp_swapped(x, lo, hi) == Min(lo, Max(hi, x))

\* generate_risk.clamp
clamp(x, lo, hi) == Max(lo, Min(hi, x))

\* A plausible slip: the boundaries go to the upper tier.
risk_level_inclusive(total_score) ==
    IF total_score >= 70 THEN "CRITICAL"
    ELSE IF total_score >= 40 THEN "MODERATE" ELSE "LOW"

\* main, lines 158-162
risk_level(total_score) ==
    IF total_score > 70 THEN "CRITICAL"
    ELSE IF total_score > 40 THEN "MODERATE" ELSE "LOW"

\* A plausible slip: the lower rail tier starts at 0.5 h.
rail_rule_inclusive(up_dwell_delta) ==
    IF Gt(up_dwell_delta, 200) THEN 30
    ELSE IF up_dwell_delta # NaN /\ up_dwell_delta >= 50 THEN 15 ELSE 0

\* main, lines 82-86 (stage in hundredths of a foot)
river_rule(delta_7d, latest_stage) ==
    (IF Lt(delta_7d, -200) THEN 20 ELSE 0)
    + (IF latest_stage # None /\ Lt(latest_stage, 0) THEN 20 ELSE 0)

\* main, lines 112-115 (dwell in hundredths of an hour)
rail_rule(up_dwell_delta) ==
    IF Gt(up_dwell_delta, 200) THEN 30 ELSE IF Gt(up_dwell_delta, 50) THEN 15 ELSE 0

\* main, lines 139-142 (lock count)
barge_rule(locks_delta) ==
    IF Lt(locks_delta, -50) THEN 30 ELSE IF Lt(locks_delta, -20) THEN 15 ELSE 0

Raised == [raised |-> TRUE]

\* float(x.get(key) or 0.0), x a dict
FloatOrZero(x, key) ==
    LET got == PyGet(x, key, JNull)
    IN  IF ~Truthy(got) THEN [raised |-> FALSE, val |-> 0]
        ELSE IF FloatRaises(got) THEN Raised
        ELSE [raised |-> FALSE, val |-> got.n]

\* main, lines 68-86: the river driver.
river_driver(river) ==
    IF ~IsDict(river) THEN Raised
    ELSE LET sites == PyGet(river, "sites", EmptyDict)
         IN  IF ~IsDict(sites) THEN Raised
             ELSE LET stl == PyGet(sites, "st_louis_mo", EmptyDict)
                      gh == IF IsDict(stl) THEN PyGet(stl, "gage_height_ft", EmptyDict)
                            ELSE EmptyDict
                      dl == IF IsDict(gh) THEN FloatOrZero(gh, "delta_7d")
                            ELSE [raised |-> FALSE, val |-> 0]
                      latest == IF IsDict(gh) THEN PyGet(gh, "latest_value", JNull)
                                ELSE JNull
                  IN  IF dl.raised THEN Raised
                      ELSE IF latest.t # "null" /\ FloatRaises(latest) THEN Raised
                      ELSE LET latest_stage == IF latest.t = "null" THEN None
                                               ELSE latest.n
                           IN  [raised |-> FALSE, name |-> "river",
                                score |-> river_rule(dl.val, latest_stage),
                                raw |-> [delta_7d_ft |-> dl.val,
                                         latest_stage_ft |-> latest_stage]]

\* main, lines 100-115: the rail driver.
rail_driver(rail) ==
    IF ~IsDict(rail) THEN Raised
    ELSE LET carriers == PyGet(rail, "carriers", EmptyDict)
         IN  IF ~IsDict(carriers) THEN Raised
             ELSE LET up == PyGet(carriers, "UP", EmptyDict)
                      metrics == IF IsDict(up) THEN PyGet(up, "metrics", EmptyDict)
                                 ELSE EmptyDict
                  IN  IF ~IsDict(metrics) THEN Raised
                      ELSE LET dw == PyGet(metrics, "terminal_dwell_hours", EmptyDict)
                               dl == IF IsDict(up) /\ IsDict(dw)
                                     THEN FloatOrZero(dw, "delta_4w")
                                     ELSE [raised |-> FALSE, val |-> 0]
                           IN  IF dl.raised THEN Raised
                               ELSE [raised |-> FALSE, name |-> "rail",
                                     score |-> rail_rule(dl.val),
                                     raw |-> [up_dwell_delta_4w_hours |-> dl.val]]

\* main, lines 130-142: the barge driver.
barge_driver(barge) ==
    IF ~IsDict(barge) THEN Raised
    ELSE LET lk == PyGet(barge, "locks_27", EmptyDict)
             dl == IF IsDict(lk) THEN FloatOrZero(lk, "delta_4w")
                   ELSE [raised |-> FALSE, val |-> 0]
         IN  IF dl.raised THEN Raised
             ELSE [raised |-> FALSE, name |-> "barge",
                   score |-> barge_rule(dl.val),
                   raw |-> [locks27_delta_4w_count |-> dl.val]]

\* generate_risk.main: the snapshot it hands to write_if_changed, or Raised.
generate_risk(river_doc, rail_doc, barge_doc) ==
    LET rv == river_driver(load_json_or_empty(river_doc))
        rl == rail_driver(load_json_or_empty(rail_doc))
        bg == barge_driver(load_json_or_empty(barge_doc))
    IN  IF rv.raised \/ rl.raised \/ bg.raised THEN Raised
        ELSE LET drivers == <<[name |-> rv.name, score |-> rv.score, raw |-> rv.raw],
                              [name |-> rl.name, score |-> rl.score, raw |-> rl.raw],
                              [name |-> bg.name, score |-> bg.score, raw |-> bg.raw]>>
                 total_score == clamp(rv.score + rl.score + bg.score, 0, 100)
             IN  [raised |-> FALSE,
                  risk_score |-> total_score,
                  risk_level |-> risk_level(total_score),
                  primary_driver |-> MaxByScore(drivers).name,
                  drivers |-> drivers]

(***************************************************************************)
(* The two scorers on the same features: the status documents carry a     *)
(* river stage and 7-day delta, a rail 28-day delta and a barge 28-day     *)
(* delta, and the histories make the backfill derive the same features for *)
(* the day scored.                                                         *)
(***************************************************************************)
RiverDeltas == {-300, -201, -200, 0}

Stages == {-50, 0, 250}

RailDeltas == {0, 50, 51, 200, 201, 250}

BargeDeltas == {0, -19, -20, -21, -50, -51, -60}

\* The day the backfill scores: the last of its window.
ScoreDay == Today - 1

JOf(x) == IF x = None THEN JNull ELSE JNum(x)

\* river_status.json as river_monitor.build_site writes it (the fields read).
RiverDoc(dl, st) ==
    JDict([sites |-> JDict([st_louis_mo |->
        JDict([gage_height_ft |-> JDict([delta_7d |-> dl, latest_value |-> st])])])])

\* rail_status.json as rail_monitor.main writes it (the fields read).
RailDoc(x) ==
    JDict([carriers |-> JDict([UP |->
        JDict([metrics |-> JDict([terminal_dwell_hours |-> JDict([delta_4w |-> x])])])])])

\* barge_status.json as barge_monitor.main writes it (the fields read).
BargeDoc(x) == JDict([locks_27 |-> JDict([delta_4w |-> x])])

\* Documents that carry no feature: absent, or not of the expected shape.
RiverDocsWithout ==
    {JMissing, EmptyDict, JDict([sites |-> JNull]),
     JDict([sites |-> JDict([st_louis_mo |-> JNull])]),
     RiverDoc(JStr("n/a"), JNull)}

RailDocsWithout ==
    {JMissing, JDict([carriers |-> JDict([UP |-> JNull])]),
     JDict([carriers |-> JDict([UP |-> JDict([metrics |-> JNull])])])}

BargeDocsWithout ==
    {JMissing, JDict([locks_27 |-> EmptyDict]), JDict([locks_27 |-> JNull])}

RiverDocsFor(dl, st) ==
    {RiverDoc(JOf(dl), JOf(st))}
    \cup (IF dl = None /\ st = None THEN RiverDocsWithout ELSE {})

RailDocsFor(x) == {RailDoc(JOf(x))} \cup (IF x = None THEN RailDocsWithout ELSE {})

BargeDocsFor(x) == {BargeDoc(JOf(x))} \cup (IF x = None THEN BargeDocsWithout ELSE {})

\* The daily stages that give the day scored the stage st and the delta dl.
RiverHistFor(dl, st) ==
    LET today_s == strftime(ScoreDay)
        prev_s == strftime(ScoreDay - 7)
        days == (IF st # None THEN {today_s} ELSE {})
                \cup (IF dl # None THEN {prev_s} ELSE {})
    IN  [k \in days |-> IF k = today_s THEN st
                        ELSE IF st # None THEN st - dl ELSE 250]

\* A history whose value rose by x over the 28 days before the day scored.
RailFileFor(x) ==
    IF x = None THEN <<>>
    ELSE <<[week_end_date |-> strftime(ScoreDay - 28), carrier |-> "UP",
            terminal_dwell_hours |-> 2300],
           [week_end_date |-> strftime(ScoreDay), carrier |-> "UP",
            terminal_dwell_hours |-> 2300 + x]>>

BargeFileFor(x) ==
    IF x = None THEN <<>>
    ELSE <<[week_end_date |-> strftime(ScoreDay - 28), total_barges |-> 310],
           [week_end_date |-> strftime(ScoreDay), total_barges |-> 310 + x]>>

ScoreStart ==
    /\ pc = "scoring"
    /\ \E dl \in RiverDeltas \cup {None}, st \in Stages \cup {None} :
         /\ river_status \in RiverDocsFor(dl, st)
         /\ river_hist = RiverHistFor(dl, st)
    /\ \E x \in RailDeltas \cup {None} :
         /\ rail_status \in RailDocsFor(x)
         /\ railFile = RailFileFor(x)
    /\ \E x \in BargeDeltas \cup {None} :
         /\ barge_status \in BargeDocsFor(x)
         /\ locksFile = BargeFileFor(x)
    /\ out = NotRun
    /\ loop_i = 0
    /\ res = <<>>
    /\ out_rows = <<>>
    /\ riskFile = <<>>
    /\ ratesFile = <<>>
    /\ locks = <<>>
    /\ rates = <<>>
    /\ clean = <<>>
    /\ loaded = NoHist
    /\ OtherIdle

\* generate_risk.main on the three status documents.
GenerateRisk ==
    /\ pc = "scoring"
    /\ "pending" \in DOMAIN out
    /\ out' = generate_risk(river_status, rail_status, barge_status)
    /\ UNCHANGED <<pc, fileVars, ingestVars, backfillVars, statusVars, xlsx, writeVars>>

\* backfill_risk.main, the call of compute_daily_risk for one day (line 169).
ScoreOneDay ==
    /\ pc = "scoring"
    /\ loop_i = 0
    /\ res' = compute_daily_risk(ScoreDay, river_hist,
                                 load_rail_df(railFile), load_barge_df(locksFile))
    /\ loop_i' = 1
    /\ UNCHANGED <<pc, fileVars, ingestVars, river_hist, out_rows, riskFile,
                   statusVars, out, xlsx, writeVars>>

ScoreNext == GenerateRisk \/ ScoreOneDay

SpecScore == ScoreStart /\ [][ScoreNext]_vars

(***************************************************************************)
(* barge_monitor.fetch_locks27: the Locks 27 workbook is a header row and  *)
(* data rows; a cell is a date, a number or a text.  The headers are read  *)
(* through str(c).strip().lower().                                         *)
(***************************************************************************)

\* Columns a workbook may have.
MaxCols == 3

\* Data rows a workbook may have.
MaxSheetRows == 1

\* Header cells as the workbook spells them.
RawHeaders ==
    {"Date", " Week Ending Date", "Total", "Downbound Grain Barges",
     "Upbound Empties", "Notes"}

\* str(c).strip().lower()
strip_lower(c) ==
    CASE c = "Date" -> "date"
      [] c = " Week Ending Date" -> "week ending date"
      [] c = "Total" -> "total"
      [] c = "Downbound Grain Barges" -> "downbound grain barges"
      [] c = "Upbound Empties" -> "upbound empties"
      [] c = "Notes" -> "notes"

\* "date" in c, on the lowered headers
has_date(c) == c \in {"date", "week ending date"}

DateCell(d) == [t |-> "date", d |-> d]

NumCell(n) == [t |-> "num", n |-> n]

TextCell(x) == [t |-> "str", s |-> x]

\* The cells found under a header.
CellsOf(c) ==
    CASE has_date(strip_lower(c)) -> {DateCell(w) : w \in Weeks} \cup {TextCell("n/a")}
      [] strip_lower(c) \in {"total", "downbound grain barges"} ->
            {NumCell(v) : v \in BargeCounts}
      [] strip_lower(c) = "upbound empties" -> {NumCell(120)}
      [] OTHER -> {TextCell("lock closed")}

\* The header rows: no header twice, at most one date header and at most
\* one barge total.
HeaderRows ==
    {h \in UNION {[1..k -> RawHeaders] : k \in 1..MaxCols} :
        /\ \A i, j \in 1..Len(h) : h[i] = h[j] => i = j
        /\ Cardinality({i \in 1..Len(h) : has_date(strip_lower(h[i]))}) <= 1
        /\ Cardinality({i \in 1..Len(h) :
                strip_lower(h[i]) \in {"total", "downbound grain barges"}}) <= 1}

SheetRows(h) == {r \in [1..Len(h) -> UNION {CellsOf(c) : c \in RawHeaders}] :
                    \A i \in 1..Len(h) : r[i] \in CellsOf(h[i])}

Sheets ==
    UNION {[columns : {h}, rows : SeqsUpTo(SheetRows(h), MaxSheetRows)] : h \in HeaderRows}

\* pd.to_datetime(x, errors="coerce").dt.strftime("%Y-%m-%d")
to_datetime_str(cell) == IF cell.t = "date" THEN cell.d ELSE <<0, 0, 0>>

\* pd.to_numeric(x, errors="coerce")
to_numeric(cell) == IF cell.t = "num" THEN cell.n ELSE NaN

\* The first of a set of column indexes, 0 when there is none:
\* next((c for c in df.columns if ...), None).
FirstIndex(S) == IF S = {} THEN 0 ELSE CHOOSE i \in S : \A j \in S : i <= j

\* fetch_locks27, lines 66-78: the column that becomes total_barges, 0 when
\* there is none: "total" or "downbound grain barges", else the first column
\* that is not the date column.
value_column(cols, date_idx) ==
    LET named == FirstIndex({i \in 1..Len(cols) :
                                cols[i] \in {"total", "downbound grain barges"}})
        candidates == {i \in 1..Len(cols) : i # date_idx}
    IN  IF named # 0 THEN named ELSE FirstIndex(candidates)

\* barge_monitor.fetch_locks27 on the workbook read: the rows it returns,
\* or that it raised RuntimeError.
fetch_locks27(sheet) ==
    LET cols == [i \in 1..Len(sheet.columns) |-> strip_lower(sheet.columns[i])]
        date_idx == FirstIndex({i \in 1..Len(cols) : has_date(cols[i])})
        val_idx == value_column(cols, date_idx)
        parsed == [k \in 1..Len(sheet.rows) |->
                      [week_end_date |-> to_datetime_str(sheet.rows[k][date_idx]),
                       total_barges |-> to_numeric(sheet.rows[k][val_idx])]]
    IN  IF date_idx = 0 \/ val_idx = 0 THEN [raised |-> TRUE, rows |-> <<>>]
        ELSE [raised |-> FALSE,
              rows |-> SelectSeq(parsed, LAMBDA r : /\ r.week_end_date # <<0, 0, 0>>
                                                    /\ r.total_barges # NaN)]

\* A barge run starts with the workbook downloaded; the rates are fetched.
FetchStart ==
    /\ pc = "barge_monitor_fetch"
    /\ xlsx \in Sheets
    /\ locks = <<>>
    /\ rates \in SeqsUpTo({[week_end_date |-> <<2026, 1, 3>>, origin |-> "STL",
                            rate_usd_per_ton |-> 1200]}, 1)
    /\ locksFile \in Stored(LocksRows, LocksKeys, MaxSheetRows)
    /\ ratesFile = <<>>
    /\ railFile = <<>>
    /\ clean = <<>>
    /\ loaded = NoHist
    /\ riskJson = NoFile
    /\ written = <<>>
    /\ BackfillIdle
    /\ ScoreIdle

\* barge_monitor.main from the workbook on: fetch_locks27 raises and main
\* ends there, or both tables are merged into their history files.
BargeMainFetch ==
    /\ pc = "barge_monitor_fetch"
    /\ LET f == fetch_locks27(xlsx)
       IN  IF f.raised
           THEN /\ pc' = "raised"
                /\ UNCHANGED <<locks, locksFile, ratesFile, loaded>>
           ELSE /\ locks' = f.rows
                /\ locksFile' = update_history(f.rows, locksFile, LocksKeys)
                /\ ratesFile' = update_history(rates, ratesFile, RatesKeys)
                /\ loaded' = [loaded EXCEPT !.locks = locksFile, !.rates = ratesFile]
                /\ pc' = "exit"
    /\ UNCHANGED <<railFile, rates, clean, xlsx, backfillVars, statusVars, out, writeVars>>

FetchNext == BargeMainFetch

SpecFetch == FetchStart /\ [][FetchNext]_vars

(***************************************************************************)
(* generate_risk.write_if_changed (barge_monitor.write_if_changed is the   *)
(* same code).  A JSON text is the sequence of its top-level members, each *)
(* a key and a value, in the order they are written; a file is absent or   *)
(* holds a text.  An object is a function from its keys to its values, in  *)
(* no order.                                                               *)
(***************************************************************************)

\* The keys of a snapshot in the order main's dict literal gives them.
InsertionKeys ==
    <<"generated_at_utc", "risk_score", "risk_level", "primary_driver", "drivers">>

\* The same keys in the order sort_keys = True writes them.
SortedKeys ==
    <<"drivers", "generated_at_utc", "primary_driver", "risk_level", "risk_score">>

\* The members of obj in the order of keys.
Members(obj, keys) ==
    LET present == SelectSeq(keys, LAMBDA k : k \in DOMAIN obj)
    IN  [i \in 1..Len(present) |-> [key |-> present[i], val |-> obj[present[i]]]]

\* json.dumps(obj, indent = 2), the keys left as the dict holds them.
dumps_insertion_order(obj) == Members(obj, InsertionKeys)

\* json.dumps(obj, indent = 2, sort_keys = True)
dumps(obj) == Members(obj, SortedKeys)

FileWith(txt) == [exists |-> TRUE, txt |-> txt]

\* A plausible slip: the file and the object compared as values, whatever
\* the text of the file.
write_if_changed_by_value(file, obj) ==
    LET new_txt == dumps(obj)
    IN  IF file.exists
           /\ {file.txt[i] : i \in DOMAIN file.txt} = {new_txt[i] : i \in DOMAIN new_txt}
        THEN [file |-> file, ret |-> FALSE]
        ELSE [file |-> FileWith(new_txt), ret |-> TRUE]

\* write_if_changed(path, obj): the file afterwards and the value returned.
write_if_changed(file, obj) ==
    LET new_txt == dumps(obj)
    IN  IF file.exists /\ file.txt = new_txt
        THEN [file |-> file, ret |-> FALSE]
        ELSE [file |-> FileWith(new_txt), ret |-> TRUE]

\* Readings of utc_now_iso().
Clock == {1, 2}

\* main, lines 169-175: the object handed to write_if_changed.
snapshot_obj(scored, now) ==
    [generated_at_utc |-> [t |-> "time", at |-> now],
     risk_score |-> JNum(scored.risk_score),
     risk_level |-> JStr(scored.risk_level),
     primary_driver |-> JStr(scored.primary_driver),
     drivers |-> [t |-> "list", l |-> scored.drivers]]

WriteRiverDocs == {RiverDoc(JNum(-300), JNum(-50)), JMissing, JDict([sites |-> JNull])}

WriteRailDocs == {RailDoc(JNum(250)), JMissing}

WriteBargeDocs == {BargeDoc(JNum(-60)), JMissing}

\* What data/risk.json may hold when a run starts: nothing, an empty text,
\* the snapshot of an earlier run, or such a snapshot written by a writer
\* that does not sort the keys.
StoredJson ==
    {NoFile, FileWith(<<>>)}
    \cup UNION {{FileWith(dumps(snapshot_obj(generate_risk(rv, rl, bg), t))),
                 FileWith(dumps_insertion_order(snapshot_obj(generate_risk(rv, rl, bg), t)))} :
                rv \in WriteRiverDocs \ {JDict([sites |-> JNull])},
                rl \in WriteRailDocs, bg \in WriteBargeDocs, t \in Clock}

WriteStart ==
    /\ pc = "generate_risk"
    /\ river_status \in WriteRiverDocs
    /\ rail_status \in WriteRailDocs
    /\ barge_status \in WriteBargeDocs
    /\ riskJson \in StoredJson
    /\ written = <<>>
    /\ out = NotRun
    /\ xlsx = NoSheet
    /\ locksFile = <<>>
    /\ ratesFile = <<>>
    /\ railFile = <<>>
    /\ locks = <<>>
    /\ rates = <<>>
    /\ clean = <<>>
    /\ loaded = NoHist
    /\ BackfillIdle

\* generate_risk.main, one run: the snapshot is built and written if it
\* differs from the file; a run that raises writes nothing.
GenerateRiskMain ==
    /\ pc = "generate_risk"
    /\ \E now \in Clock :
         LET scored == generate_risk(river_status, rail_status, barge_status)
         IN  IF scored.raised
             THEN /\ out' = Raised
                  /\ UNCHANGED writeVars
             ELSE LET obj == snapshot_obj(scored, now)
                      w == write_if_changed(riskJson, obj)
                  IN  /\ out' = scored @@ [generated_at_utc |-> now]
                      /\ riskJson' = w.file
                      /\ written' = <<[old |-> riskJson, new_txt |-> dumps(obj),
                                       ret |-> w.ret]>>
    /\ UNCHANGED <<pc, fileVars, ingestVars, backfillVars, statusVars, xlsx>>

WriteNext == GenerateRiskMain

SpecWrite == WriteStart /\ [][WriteNext]_vars

(***************************************************************************)
(* The 4-week deltas the monitors publish: barge_monitor.latest_delta_4w   *)
(* and rail_monitor.metric_delta_4w, on the history the run has merged.    *)
(***************************************************************************)

\* Weekly dates a history may cover, the last of them the week the run
\* fetches.
MaxWeeks == 6

\* The date string of week k, the weeks seven days apart.
WeekDate(k) == strftime(Today - 7 * (MaxWeeks - k))

\* df.tail(n)
tail(df, n) == SubSeq(df, Max(1, Len(df) - n + 1), Len(df))

\* barge_monitor.latest_delta_4w, on a table that has a row.
latest_delta_4w(series_df, value_col) ==
    LET sorted == sort_values(series_df, <<"week_end_date">>)
        latest == sorted[Len(sorted)][value_col]
    IN  [value |-> latest,
         delta_4w |-> IF Len(sorted) >= 5
                      THEN latest - sorted[Len(sorted) - 4][value_col]
                      ELSE 0]

\* barge_monitor.main, lines 148-164: the locks_27 part of barge_status.json.
barge_status_doc(locks_hist) ==
    IF locks_hist = <<>> THEN JDict([locks_27 |-> EmptyDict])
    ELSE LET by_week == sort_values(locks_hist, <<"week_end_date">>)
             latest_week == by_week[Len(by_week)].week_end_date
             sub == tail(SelectSeq(locks_hist,
                                   LAMBDA r : StrDateLeq(r.week_end_date, latest_week)), 5)
             ld == latest_delta_4w(sub, "total_barges")
         IN  JDict([locks_27 |-> JDict([week_end_date |-> JStr(latest_week),
                                        value |-> JNum(ld.value),
                                        delta_4w |-> JNum(ld.delta_4w)])])

\* The rows of one carrier that hold a number for the metric, by week:
\* df[carrier == c], to_numeric, dropna, sort_values.
carrier_rows(df, carrier, metric) ==
    sort_values(SelectSeq(df, LAMBDA r : r.carrier = carrier /\ r[metric] # NaN),
                <<"week_end_date">>)

\* rail_monitor.metric_delta_4w
metric_delta_4w(df, carrier, metric) ==
    LET valid == carrier_rows(df, carrier, metric)
    IN  IF Len(valid) < 5 THEN None
        ELSE valid[Len(valid)][metric] - valid[Len(valid) - 4][metric]

\* rail_monitor.latest_value
latest_value(df, carrier, metric) ==
    LET valid == carrier_rows(df, carrier, metric)
    IN  IF valid = <<>> THEN None ELSE valid[Len(valid)][metric]

\* rail_monitor.main, lines 284-296: the dwell metric of every carrier in
\* rail_status.json.
rail_status_doc(rail_hist) ==
    JDict([carriers |-> JDict([c \in CARRIERS |->
        JDict([metrics |-> JDict([terminal_dwell_hours |->
            JDict([value |-> JOf(latest_value(rail_hist, c, "terminal_dwell_hours")),
                   delta_4w |-> JOf(metric_delta_4w(rail_hist, c,
                                                    "terminal_dwell_hours"))])])])])])

\* The weeks for which values holds a value, in ascending order.
WeeksPresent(values) ==
    SelectSeq([k \in 1..Len(values) |-> k], LAMBDA k : values[k] # None)

BargeWeekRow(k, v) == [week_end_date |-> WeekDate(k), total_barges |-> v]

RailWeekRow(k, v) ==
    [week_end_date |-> WeekDate(k), carrier |-> "UP", terminal_dwell_hours |-> v]

\* Histories with any of the earlier weeks missing.
BargeHistories ==
    {[i \in 1..Len(WeeksPresent(f)) |->
         BargeWeekRow(WeeksPresent(f)[i], f[WeeksPresent(f)[i]])] :
        f \in [1..(MaxWeeks - 1) -> BargeCounts \cup {None}]}

RailHistories ==
    {[i \in 1..Len(WeeksPresent(f)) |->
         RailWeekRow(WeeksPresent(f)[i], f[WeeksPresent(f)[i]])] :
        f \in [1..(MaxWeeks - 1) -> DwellValues \cup {None}]}

\* A monitor run starts on a stored history; it fetched the latest week, or
\* nothing.
DeltaStart ==
    /\ \/ /\ pc = "barge_monitor_status"
          /\ locksFile \in BargeHistories
          /\ locks \in {<<>>} \cup {<<BargeWeekRow(MaxWeeks, v)>> : v \in BargeCounts}
          /\ railFile = <<>>
          /\ clean = <<>>
       \/ /\ pc = "rail_monitor_status"
          /\ railFile \in RailHistories
          /\ clean \in {<<>>} \cup {<<RailWeekRow(MaxWeeks, v)>> : v \in DwellValues \ {NaN}}
          /\ locksFile = <<>>
          /\ locks = <<>>
    /\ rates = <<>>
    /\ ratesFile = <<>>
    /\ loaded = NoHist
    /\ OtherIdle
    /\ BackfillIdle
    /\ ScoreIdle

\* barge_monitor.main: the tables are merged and the status is written.
BargeMainStatus ==
    /\ pc = "barge_monitor_status"
    /\ locksFile' = update_history(locks, locksFile, LocksKeys)
    /\ ratesFile' = update_history(rates, ratesFile, RatesKeys)
    /\ loaded' = [loaded EXCEPT !.locks = locksFile, !.rates = ratesFile]
    /\ barge_status' = barge_status_doc(locksFile')
    /\ pc' = "exit"
    /\ UNCHANGED <<railFile, locks, rates, clean, xlsx, backfillVars, river_status,
                   rail_status, out, writeVars>>

\* rail_monitor.main: the workbook is merged and the status is written.
RailMainStatus ==
    /\ pc = "rail_monitor_status"
    /\ railFile' = update_hist(clean, railFile)
    /\ loaded' = [loaded EXCEPT !.rail = railFile]
    /\ rail_status' = rail_status_doc(railFile')
    /\ pc' = "exit"
    /\ UNCHANGED <<locksFile, ratesFile, locks, rates, clean, xlsx, backfillVars,
                   river_status, barge_status, out, writeVars>>

DeltaNext == BargeMainStatus \/ RailMainStatus

SpecDelta == DeltaStart /\ [][DeltaNext]_vars

(***************************************************************************)
(* Claims about the history merge.                                         *)
(***************************************************************************)

\* The rows of batch that are the last of their key in the batch.
IsLastOfKey(batch, keys, i) ==
    \A j \in (i + 1)..Len(batch) : ~SameKey(keys, batch[i], batch[j])

\* Every key of the batch is held once by the table, with the row the batch
\* gave last for it.
LastWins(batch, table, keys) ==
    \A i \in 1..Len(batch) :
        IsLastOfKey(batch, keys, i) =>
            \E k \in 1..Len(table) :
                /\ table[k] = batch[i]
                /\ \A m \in 1..Len(table) :
                      SameKey(keys, table[m], batch[i]) => m = k

\* C1: after update_history / update_hist every key of the incoming batch
\* carries the batch's value in the merged table, never the stored one, and a
\* key the batch holds several times carries its last occurrence.
C1_LastWriteWins ==
    pc = "exit" =>
        /\ LastWins(locks, locksFile, LocksKeys)
        /\ LastWins(rates, ratesFile, RatesKeys)
        /\ LastWins(clean, railFile, RailKeys)

\* A run where the stored table and the batch disagreed on a key, and the
\* batch itself gave that key twice with different values.
C1_Witness ==
    /\ pc = "exit"
    /\ \E h \in 1..Len(loaded.locks), i, j \in 1..Len(locks) :
          /\ i < j
          /\ SameKey(LocksKeys, locks[i], locks[j])
          /\ SameKey(LocksKeys, loaded.locks[h], locks[j])
          /\ locks[i].total_barges # locks[j].total_barges
          /\ loaded.locks[h].total_barges # locks[j].total_barges

\* C2: every persisted history table is strictly ascending in its key
\* (date, then dimension): one row per key, ordered by date then dimension.
C2_StrictlyAscending ==
    /\ StrictlyAscending(locksFile, LocksKeys)
    /\ StrictlyAscending(ratesFile, RatesKeys)
    /\ StrictlyAscending(railFile, RailKeys)

\* A run whose batch arrived out of key order within one week and across the
\* year end, and repeated a stored key.
C2_Witness ==
    /\ pc = "exit"
    /\ Len(rates) = 2
    /\ rates[1].week_end_date = rates[2].week_end_date
    /\ StrLt(rates[2].origin, rates[1].origin)
    /\ Len(loaded.rates) = 2
    /\ StrDateLt(rates[1].week_end_date, loaded.rates[1].week_end_date)
    /\ Len(ratesFile) = 4

\* merge(S, merge(S, {})) = merge(S, {}) in the spec's merge(existing, incoming).
MergeTwice(S, keys) ==
    LET once == update_history(<<>>, S, keys)
    IN  update_history(once, S, keys) = once

\* C3: merging the incoming batch a second time into the merged table leaves
\* keys, values and order as they are; and normalising a series and merging
\* the result into the series gives the normalised series.
C3_Idempotent ==
    /\ pc = "exit" =>
          /\ update_history(locks, locksFile, LocksKeys) = locksFile
          /\ update_history(rates, ratesFile, RatesKeys) = ratesFile
          /\ update_hist(clean, railFile) = railFile
    /\ MergeTwice(locks, LocksKeys)
    /\ MergeTwice(rates, RatesKeys)
    /\ MergeTwice(loaded.locks \o locks, LocksKeys)

\* A run that changed the stored table: the batch overrode a stored row and
\* added a new key.
C3_Witness ==
    /\ pc = "exit"
    /\ Len(clean) = 2
    /\ Len(loaded.rail) = 2
    /\ Len(railFile) = 3
    /\ railFile # loaded.rail \o clean
    /\ \E i \in 1..2, k \in 1..2 :
          /\ SameKey(RailKeys, clean[i], loaded.rail[k])
          /\ clean[i] # loaded.rail[k]

(***************************************************************************)
(* Claims about the as-of lookup and the 28-day deltas of the backfill.    *)
(***************************************************************************)

\* The calendar day a date string names, counted like the datetimes.
DayNumber(date) == (date[1] - 2025) * 365 + DaysBefore[date[2]] + date[3] - 1

Range(f) == {f[k] : k \in DOMAIN f}

\* The series the backfill reads: the UP rows of the rail history, the rows
\* of the barge history.
RailSeries == {r \in Range(railFile) : r.carrier = "UP"}

BargeSeries == Range(locksFile)

OnOrBefore(S, day) == {r \in S : DayNumber(r.week_end_date) <= day}

LatestOf(S) ==
    CHOOSE r \in S :
        \A q \in S : DayNumber(q.week_end_date) <= DayNumber(r.week_end_date)

EarliestOf(S) ==
    CHOOSE r \in S :
        \A q \in S : DayNumber(r.week_end_date) <= DayNumber(q.week_end_date)

\* The value at the largest date on or before day, the earliest value when
\* every observation is later.
ValueAsOf(S, day, col) ==
    IF OnOrBefore(S, day) # {} THEN LatestOf(OnOrBefore(S, day))[col]
    ELSE EarliestOf(S)[col]

\* C4: for a non-empty series as the backfill loads it, get_as_of gives the
\* value at the largest date on or before the day asked for, and the value
\* of the earliest observation when every observation is later.
C4_AsOfNeverLooksAhead ==
    loop_i > 0 =>
        /\ RailSeries # {} =>
             /\ res.curr_rail =
                    ValueAsOf(RailSeries, res.target_date, "terminal_dwell_hours")
             /\ res.past_rail =
                    ValueAsOf(RailSeries, res.target_date - 28, "terminal_dwell_hours")
        /\ BargeSeries # {} =>
             /\ res.curr_barge = ValueAsOf(BargeSeries, res.target_date, "total_barges")
             /\ res.past_barge =
                    ValueAsOf(BargeSeries, res.target_date - 28, "total_barges")

\* A day between two rail observations of different value, whose day 28 days
\* earlier lies before both: the earlier one is the as-of value of the day,
\* and the fallback for the earlier day.
C4_Witness ==
    /\ loop_i > 0
    /\ Cardinality(RailSeries) = 2
    /\ Cardinality(OnOrBefore(RailSeries, res.target_date)) = 1
    /\ OnOrBefore(RailSeries, res.target_date - 28) = {}
    /\ res.curr_rail = 2300
    /\ \E r \in RailSeries : r.terminal_dwell_hours = 2501
    /\ res.past_rail = 2300

\* C5: the rail and barge deltas of a day are value_as_of(d) minus
\* value_as_of(d - 28 days) on the same series, and 0.0 when the series is
\* empty or missing.
C5_DeltaIsLagDifference ==
    loop_i > 0 =>
        /\ res.rail_delta =
             IF RailSeries = {} THEN 0
             ELSE Sub(ValueAsOf(RailSeries, res.target_date, "terminal_dwell_hours"),
                      ValueAsOf(RailSeries, res.target_date - 28,
                                "terminal_dwell_hours"))
        /\ res.barge_delta =
             IF BargeSeries = {} THEN 0
             ELSE Sub(ValueAsOf(BargeSeries, res.target_date, "total_barges"),
                      ValueAsOf(BargeSeries, res.target_date - 28, "total_barges"))

\* A day with a barge drop of 55 over the 28 days and no rail series at all.
C5_Witness ==
    /\ loop_i > 0
    /\ RailSeries = {}
    /\ res.rail_delta = 0
    /\ res.curr_barge = 255
    /\ res.past_barge = 310
    /\ res.barge_delta = -55

(***************************************************************************)
(* Claims about the scorers.                                               *)
(***************************************************************************)

\* main built a snapshot (it did not raise).
Snapshot == "risk_score" \in DOMAIN out

\* compute_daily_risk has scored the day.
DayScored == loop_i > 0

RiverDocsFull ==
    {RiverDoc(JOf(dl), JOf(st)) : dl \in RiverDeltas \cup {None}, st \in Stages \cup {None}}

RailDocsFull == {RailDoc(JOf(x)) : x \in RailDeltas \cup {None}}

BargeDocsFull == {BargeDoc(JOf(x)) : x \in BargeDeltas \cup {None}}

\* The features the documents carry; a null delta counts as 0.0.
NumOr(j, default) == IF j.t = "num" THEN j.n ELSE default

DocGageHeight == river_status.d.sites.d.st_louis_mo.d.gage_height_ft.d

DocRiverDelta == NumOr(DocGageHeight.delta_7d, 0)

DocStage == NumOr(DocGageHeight.latest_value, None)

DocRailDelta ==
    NumOr(rail_status.d.carriers.d.UP.d.metrics.d.terminal_dwell_hours.d.delta_4w, 0)

DocBargeDelta == NumOr(barge_status.d.locks_27.d.delta_4w, 0)

\* +20 for a 7-day delta below -2.0 ft, +20 for a stage below 0.0 ft.
RiverPoints(delta, stage) ==
    (IF delta < -200 THEN 20 ELSE 0) + (IF stage # None /\ stage < 0 THEN 20 ELSE 0)

\* C6: the river score is +20 if the 7-day stage delta is strictly below
\* -2.0 plus +20 if the latest stage is strictly below 0.0, so it is 0, 20 or
\* 40, in the live scorer and in the backfill.
C6_RiverScore ==
    /\ Snapshot =>
         /\ out.drivers[1].name = "river"
         /\ out.drivers[1].score \in {0, 20, 40}
         /\ river_status \in RiverDocsFull =>
                out.drivers[1].score = RiverPoints(DocRiverDelta, DocStage)
    /\ DayScored =>
         /\ res.r_score \in {0, 20, 40}
         /\ res.r_score =
                IF res.r_val = None THEN 0 ELSE RiverPoints(res.r_delta, res.r_val)

\* Both rules fire on a drop of 2.01 ft to a stage below the gauge zero.
C6_Witness ==
    /\ Snapshot
    /\ DayScored
    /\ river_status = RiverDoc(JNum(-201), JNum(-50))
    /\ out.drivers[1].score = 40
    /\ res.r_delta = -201
    /\ res.r_score = 40

\* The barge tiers as the threshold table gives them: 15 on (-50, -20].
BargePointsTable(delta) ==
    IF delta < -50 THEN 30 ELSE IF delta > -50 /\ delta <= -20 THEN 15 ELSE 0

\* The barge tiers with the boundaries where the scorers put them: 15 on
\* [-50, -20).
BargePoints(delta) ==
    IF delta < -50 THEN 30 ELSE IF delta >= -50 /\ delta < -20 THEN 15 ELSE 0

\* Rail: 30 above +2.0 h, 15 on (+0.5, +2.0], else 0.
RailPoints(delta) ==
    IF delta = NaN THEN 0
    ELSE IF delta > 200 THEN 30 ELSE IF delta > 50 /\ delta <= 200 THEN 15 ELSE 0

\* C7 as stated: rail 30 / 15 / 0 on (2.0, oo) / (0.5, 2.0] / the rest, barge
\* 30 / 15 / 0 on (-oo, -50) / (-50, -20] / the rest.
C7_TiersAsStated ==
    /\ (Snapshot /\ rail_status \in RailDocsFull /\ barge_status \in BargeDocsFull) =>
         /\ out.drivers[2].score = RailPoints(DocRailDelta)
         /\ out.drivers[3].score = BargePointsTable(DocBargeDelta)
    /\ DayScored =>
         /\ res.rr_score = RailPoints(res.rail_delta)
         /\ res.b_score = BargePointsTable(res.barge_delta)

\* C7 (amended): rail scores 30 above +2.0 h, 15 on (+0.5, +2.0], else 0;
\* barge scores 30 below -50, 15 on [-50, -20) (exactly -50 scores 15, exactly
\* -20 scores 0), else 0; no driver scores both of its tiers.
C7_Tiers ==
    /\ Snapshot =>
         /\ out.drivers[2].name = "rail" /\ out.drivers[2].score \in {0, 15, 30}
         /\ out.drivers[3].name = "barge" /\ out.drivers[3].score \in {0, 15, 30}
    /\ (Snapshot /\ rail_status \in RailDocsFull) =>
         out.drivers[2].score = RailPoints(DocRailDelta)
    /\ (Snapshot /\ barge_status \in BargeDocsFull) =>
         out.drivers[3].score = BargePoints(DocBargeDelta)
    /\ DayScored =>
         /\ res.rr_score = RailPoints(res.rail_delta)
         /\ res.b_score = BargePoints(res.barge_delta)

\* Both scorers on a dwell delta of exactly +2.0 h and a lock-count delta of
\* exactly -50: each scores its lower tier.
C7_Witness ==
    /\ Snapshot
    /\ DayScored
    /\ rail_status = RailDoc(JNum(200))
    /\ barge_status = BargeDoc(JNum(-50))
    /\ out.drivers[2].score = 15
    /\ out.drivers[3].score = 15
    /\ res.rail_delta = 200 /\ res.rr_score = 15
    /\ res.barge_delta = -50 /\ res.b_score = 15

\* C8: the composite is min(100, river + rail + barge) and lies in [0, 100]
\* in every snapshot and every backfilled row; scores summing to 120 report 100.
C8_CompositeClamp ==
    /\ Snapshot =>
         /\ out.risk_score =
              Min(100, out.drivers[1].score + out.drivers[2].score
                       + out.drivers[3].score)
         /\ out.risk_score >= 0 /\ out.risk_score <= 100
    /\ DayScored =>
         /\ res.total = Min(100, res.r_score + res.rr_score + res.b_score)
         /\ res.total >= 0 /\ res.total <= 100
    /\ clamp(120, 0, 100) = 100
    /\ \A x \in 0..120 : clamp(x, 0, 100) = Min(100, x)

\* Every rule fires: 40 + 30 + 30.
C8_Witness ==
    /\ Snapshot
    /\ DayScored
    /\ out.drivers[1].score = 40 /\ out.drivers[2].score = 30
    /\ out.drivers[3].score = 30
    /\ out.risk_score = 100
    /\ res.total = 100

LevelOf(score) ==
    IF score > 70 THEN "CRITICAL"
    ELSE IF 40 < score /\ score <= 70 THEN "MODERATE" ELSE "LOW"

\* C9: the level is CRITICAL iff score > 70, MODERATE iff 40 < score <= 70,
\* LOW iff score <= 40; 40 is LOW, 41 MODERATE, 70 MODERATE, 71 CRITICAL.
C9_RiskLevel ==
    /\ Snapshot => out.risk_level = LevelOf(out.risk_score)
    /\ DayScored => res.level = LevelOf(res.total)
    /\ \A x \in 0..100 :
         /\ risk_level(x) = LevelOf(x)
         /\ backfill_level(x) = LevelOf(x)
    /\ risk_level(40) = "LOW" /\ backfill_level(40) = "LOW"
    /\ risk_level(41) = "MODERATE" /\ backfill_level(41) = "MODERATE"
    /\ risk_level(70) = "MODERATE" /\ backfill_level(70) = "MODERATE"
    /\ risk_level(71) = "CRITICAL" /\ backfill_level(71) = "CRITICAL"

\* A composite of exactly 70 in both scorers.
C9_Witness ==
    /\ Snapshot
    /\ DayScored
    /\ out.risk_score = 70 /\ out.risk_level = "MODERATE"
    /\ res.total = 70 /\ res.level = "MODERATE"

\* River delta_7d = -3.0 ft, latest stage = -0.5 ft, rail delta 0, barge delta 0.
CleanRiverScenario ==
    /\ river_status = RiverDoc(JNum(-300), JNum(-50))
    /\ rail_status = RailDoc(JNum(0))
    /\ barge_status = BargeDoc(JNum(0))

ScenarioScores ==
    /\ out.drivers[1].score = 40
    /\ out.drivers[2].score = 0
    /\ out.drivers[3].score = 0
    /\ out.risk_score = 40
    /\ out.primary_driver = "river"

\* C10 as stated: the scenario gives 40 / 0 / 0, composite 40, level MODERATE,
\* primary driver river.
C10_ScenarioAsStated ==
    (CleanRiverScenario /\ ~("pending" \in DOMAIN out)) =>
        /\ Snapshot
        /\ ScenarioScores
        /\ out.risk_level = "MODERATE"

\* C10 (amended): the scenario gives river_score 40, rail 0, barge 0,
\* composite 40, risk level LOW (40 is not above 40) and primary driver river.
C10_Scenario ==
    (CleanRiverScenario /\ ~("pending" \in DOMAIN out)) =>
        /\ Snapshot
        /\ ScenarioScores
        /\ out.risk_level = "LOW"

\* The scenario has been scored.
C10_Witness ==
    /\ CleanRiverScenario
    /\ Snapshot
    /\ out.risk_score = 40
    /\ out.primary_driver = "river"

(***************************************************************************)
(* Claims about the primary driver.                                        *)
(***************************************************************************)

\* The first of river, rail, barge that carries the largest of the scores.
FirstMax(river, rail, barge) ==
    IF river >= rail /\ river >= barge THEN "river"
    ELSE IF rail >= barge THEN "rail" ELSE "barge"

SnapshotScored == \E k \in 1..3 : out.drivers[k].score > 0

DayHasScore == res.r_score > 0 \/ res.rr_score > 0 \/ res.b_score > 0

\* C11: whenever some driver scored above 0, the primary driver carries the
\* largest score, and of several with the largest score it is the first in
\* the order river, rail, barge -- in the snapshot and in the backfilled day.
C11_PrimaryDriver ==
    /\ (Snapshot /\ SnapshotScored) =>
          /\ out.primary_driver =
                FirstMax(out.drivers[1].score, out.drivers[2].score,
                         out.drivers[3].score)
          /\ \E k \in 1..3 :
                /\ out.drivers[k].name = out.primary_driver
                /\ \A j \in 1..3 : out.drivers[j].score <= out.drivers[k].score
    /\ (DayScored /\ DayHasScore) =>
          res.primary = FirstMax(res.r_score, res.rr_score, res.b_score)
    /\ (Snapshot /\ rail_status = RailDoc(JNum(250)) /\ out.drivers[1].score = 0
            /\ out.drivers[3].score = 0) =>
          out.primary_driver = "rail"

\* Rail and barge both score 30 and the river scores nothing: rail is named
\* by both scorers.
C11_Witness ==
    /\ Snapshot
    /\ DayScored
    /\ out.drivers[1].score = 0
    /\ out.drivers[2].score = 30 /\ out.drivers[3].score = 30
    /\ out.primary_driver = "rail"
    /\ res.r_score = 0 /\ res.rr_score = 30 /\ res.b_score = 30
    /\ res.primary = "rail"

\* Status inputs that are empty or missing: no file, or an empty object.
EmptyOrMissing == {JMissing, EmptyDict}

AllInputsEmpty ==
    /\ river_status \in EmptyOrMissing
    /\ rail_status \in EmptyOrMissing
    /\ barge_status \in EmptyOrMissing

\* generate_risk.main has run to its end, or raised.
MainDone == ~("pending" \in DOMAIN out)

\* C12 as stated: when the three status inputs are empty or missing, and
\* whenever no driver scored above 0, scoring completes with composite 0,
\* level LOW and primary driver "none".
C12_NoDataAsStated ==
    /\ (MainDone /\ AllInputsEmpty) => Snapshot
    /\ (Snapshot /\ ~SnapshotScored) =>
          /\ out.risk_score = 0
          /\ out.risk_level = "LOW"
          /\ out.primary_driver = "none"
    /\ (DayScored /\ ~DayHasScore) =>
          /\ res.total = 0
          /\ res.level = "LOW"
          /\ res.primary = "none"

\* The three status files do not exist and both scorers have run: the day
\* of the backfill names "none", the snapshot names "river".
C12_Witness ==
    /\ river_status = JMissing /\ rail_status = JMissing /\ barge_status = JMissing
    /\ Snapshot
    /\ DayScored
    /\ out.risk_score = 0 /\ out.risk_level = "LOW"
    /\ out.primary_driver = "river"
    /\ res.total = 0 /\ res.level = "LOW" /\ res.primary = "none"

(***************************************************************************)
(* Claims about missing and malformed status documents.                    *)
(***************************************************************************)

\* main on the documents read, and on the same documents with one of them
\* taken away.
Scored == generate_risk(river_status, rail_status, barge_status)

WithoutRiver == generate_risk(JMissing, rail_status, barge_status)

WithoutRail == generate_risk(river_status, JMissing, barge_status)

WithoutBarge == generate_risk(river_status, rail_status, JMissing)

\* The document of driver k is missing or malformed: main does not raise,
\* driver k scores 0, and the other drivers are what they are without it.
Isolated(without, k) ==
    /\ ~Scored.raised
    /\ Scored.drivers[k].score = 0
    /\ ~without.raised =>
          \A j \in (1..3) \ {k} : Scored.drivers[j] = without.drivers[j]

\* C13 as stated: a status document that is missing or malformed (absent
\* file, missing keys, null or wrongly typed nested fields, null delta) never
\* makes the scorer raise; its driver scores 0 and the other drivers score
\* as if the document were absent.
C13_IsolatedAsStated ==
    MainDone =>
        /\ out = Scored
        /\ river_status \in RiverDocsWithout => Isolated(WithoutRiver, 1)
        /\ rail_status \in RailDocsWithout => Isolated(WithoutRail, 2)
        /\ barge_status \in BargeDocsWithout => Isolated(WithoutBarge, 3)

\* river_status.json holds {"sites": null} beside a rail document with a
\* dwell delta of +2.5 h and a barge document with a delta of -60: main
\* raised, where without the river document it scores rail 30 and barge 30.
C13_Witness ==
    /\ river_status = JDict([sites |-> JNull])
    /\ rail_status = RailDoc(JNum(250))
    /\ barge_status = BargeDoc(JNum(-60))
    /\ MainDone
    /\ out = Raised
    /\ ~WithoutRiver.raised
    /\ WithoutRiver.risk_score = 60

(***************************************************************************)
(* Claims about the backfill run.                                          *)
(***************************************************************************)

\* backfill_risk.main has written risk_daily.csv.
BackfillDone == pc = "exit" /\ loop_i = DAYS_BACK

\* The days of the rows of a risk table, in the order of the rows.
RowDays(table) == [k \in 1..Len(table) |-> DayNumber(table[k].timestamp_utc)]

\* C14: after a backfill run with days_back = N the risk history table holds
\* one row for each day of [today - N, today - 1] and no other row: today is
\* not in it, no day is in it twice, the rows ascend by date, and what the
\* table held before is gone.
C14_BackfillWindow ==
    /\ Len(out_rows) = loop_i
    /\ BackfillDone =>
          /\ Len(riskFile) = DAYS_BACK
          /\ \A k \in 1..DAYS_BACK :
                /\ riskFile[k].timestamp_utc = strftime(Today - DAYS_BACK + k - 1)
                /\ RowDays(riskFile)[k] = Today - DAYS_BACK + k - 1
          /\ \A k \in 1..Len(riskFile) :
                /\ RowDays(riskFile)[k] >= Today - DAYS_BACK
                /\ RowDays(riskFile)[k] <= Today - 1
          /\ \A j, k \in 1..Len(riskFile) :
                j < k => /\ RowDays(riskFile)[j] < RowDays(riskFile)[k]
                         /\ StrDateLt(riskFile[j].timestamp_utc,
                                      riskFile[k].timestamp_utc)
          /\ \A k \in 1..Len(riskFile) : riskFile[k] # StaleRisk[1]

\* A run over a table that held an older row: the first row written is the
\* day today - N, the last the day before today, and a day of the window
\* scored above 0.
C14_Witness ==
    /\ BackfillDone
    /\ riskFile # StaleRisk
    /\ riskFile[1].timestamp_utc = strftime(Today - DAYS_BACK)
    /\ riskFile[DAYS_BACK].timestamp_utc = strftime(Today - 1)
    /\ \E k \in 1..DAYS_BACK : riskFile[k].risk_score > 0

\* The river observations dated on or before day.
RiverOnOrBefore(day) == {k \in DOMAIN river_hist : DayNumber(k) <= day}

\* The latest river observation on or before day (there is one).
RiverAsOf(day) ==
    river_hist[CHOOSE k \in RiverOnOrBefore(day) :
                   \A q \in RiverOnOrBefore(day) : DayNumber(q) <= DayNumber(k)]

\* The river observation dated day itself, None when there is none.
RiverOn(day) == DictGet(river_hist, strftime(day))

\* The river inputs read as of the day, the way get_as_of reads rail and
\* barge; compute_daily_risk does not read them so.
river_inputs_as_of(target_date, hist) ==
    LET as_of(date_str) ==
            LET past == {k \in DOMAIN hist : StrDateLeq(k, date_str)}
            IN  IF past = {} THEN None
                ELSE hist[CHOOSE k \in past : \A q \in past : StrDateLeq(q, k)]
        r_val == as_of(strftime(target_date))
        r_prev == as_of(strftime(target_date - 7))
    IN  [r_val |-> r_val,
         r_delta |-> IF r_val # None /\ r_prev # None THEN Sub(r_val, r_prev) ELSE 0]

\* C15 as stated: the river level used for a day d of the window is the
\* latest observation on or before d and the 7-day delta is
\* value_as_of(d) - value_as_of(d - 7 days), so a day without an observation
\* of its own is scored from the most recent earlier one.
C15_RiverAsOfAsStated ==
    loop_i > 0 =>
        /\ RiverOnOrBefore(res.target_date) # {} =>
              res.r_val = RiverAsOf(res.target_date)
        /\ RiverOnOrBefore(res.target_date - 7) # {} =>
              res.r_delta = RiverAsOf(res.target_date) - RiverAsOf(res.target_date - 7)

\* What compute_daily_risk does instead (C15): the river level used for a day
\* d is the observation dated d itself; the 7-day delta is
\* value(d) - value(d - 7 days) when both days have an observation and 0.0
\* otherwise; a day without an observation of its own has no river level and
\* a river score of 0, whatever was observed before it.
C15_RiverExactDate ==
    loop_i > 0 =>
        /\ res.r_val = RiverOn(res.target_date)
        /\ res.r_delta =
              IF RiverOn(res.target_date) # None /\ RiverOn(res.target_date - 7) # None
              THEN RiverOn(res.target_date) - RiverOn(res.target_date - 7)
              ELSE 0
        /\ RiverOn(res.target_date) = None => res.r_score = 0

\* A day without an observation of its own, after a day observed below the
\* gauge zero: the day has no river level and scores nothing for the river,
\* where the as-of reading scores 20.
C15_Witness ==
    /\ loop_i > 0
    /\ RiverOn(res.target_date) = None
    /\ RiverOnOrBefore(res.target_date) # {}
    /\ RiverAsOf(res.target_date) = -50
    /\ res.r_val = None
    /\ res.r_score = 0
    /\ LET as_of == river_inputs_as_of(res.target_date, river_hist)
       IN  /\ as_of.r_val = -50
           /\ backfill_river_score(as_of.r_val, as_of.r_delta) = 20

(***************************************************************************)
(* Claims about the column detection of the ingestion.                     *)
(***************************************************************************)

LoweredHeaders == {strip_lower(xlsx.columns[i]) : i \in 1..Len(xlsx.columns)}

\* The workbook has a column that names a date.
DateIdentified == \E c \in LoweredHeaders : has_date(c)

\* The workbook has a column that names the barge total.
ValueIdentified == \E c \in LoweredHeaders : c \in {"total", "downbound grain barges"}

\* barge_monitor.main has ended, by returning or by an exception.
FetchDone == pc \in {"exit", "raised"}

\* C16 as stated: when the date column or the value column cannot be
\* identified the ingestion raises and ends before any history row is
\* written; it never falls back to a guessed column.
C16_NoGuessAsStated ==
    (FetchDone /\ ~(DateIdentified /\ ValueIdentified)) =>
        /\ pc = "raised"
        /\ locks = <<>>
        /\ loaded = NoHist

\* A workbook with the headers "Date" and "Upbound Empties": the run ended
\* without raising and the history holds the upbound count as total_barges.
C16_Witness ==
    /\ pc = "exit"
    /\ xlsx.columns = <<"Date", "Upbound Empties">>
    /\ ~ValueIdentified
    /\ loaded.locks = <<>>
    /\ Len(locksFile) = 1
    /\ locksFile[1].total_barges = 120

(***************************************************************************)
(* Claims about the snapshot write.                                        *)
(***************************************************************************)

\* write_if_changed has been called; LastWrite is that call.
Wrote == written # <<>>

LastWrite == written[1]

\* C17: write_if_changed leaves the file untouched and returns False if and
\* only if the file exists and its text equals the serialization of the new
\* object, generated_at_utc included; otherwise it returns True and the file
\* holds the new serialization afterwards.
C17_WriteIfChanged ==
    (Wrote /\ Snapshot) =>
        /\ LastWrite.new_txt = dumps(snapshot_obj(out, out.generated_at_utc))
        /\ \E k \in 1..Len(LastWrite.new_txt) :
              /\ LastWrite.new_txt[k].key = "generated_at_utc"
              /\ LastWrite.new_txt[k].val.at = out.generated_at_utc
        /\ LastWrite.ret = FALSE <=>
              (LastWrite.old.exists /\ LastWrite.old.txt = LastWrite.new_txt)
        /\ LastWrite.ret = FALSE => riskJson = LastWrite.old
        /\ LastWrite.ret = TRUE =>
              /\ riskJson = FileWith(LastWrite.new_txt)
              /\ riskJson # LastWrite.old

\* Two runs read the same clock value: the second finds its own text in the
\* file and leaves it.
C17_Witness ==
    /\ Wrote
    /\ Snapshot
    /\ LastWrite.ret = FALSE
    /\ LastWrite.old.exists
    /\ riskJson.txt = dumps(snapshot_obj(out, out.generated_at_utc))
    /\ out.risk_score = 100

(***************************************************************************)
(* Claims that compare the live scorer with the backfill.                  *)
(***************************************************************************)

\* Both scorers have run, the status documents carry a stage (or none), a
\* 7-day delta, a rail delta and a barge delta, and the backfill derived the
\* same four values for the day it scored.
SameFeatures ==
    /\ Snapshot
    /\ DayScored
    /\ river_status \in RiverDocsFull
    /\ rail_status \in RailDocsFull
    /\ barge_status \in BargeDocsFull
    /\ res.r_val = DocStage
    /\ res.r_delta = DocRiverDelta
    /\ res.rail_delta = DocRailDelta
    /\ res.barge_delta = DocBargeDelta

\* C18 as stated: on the same stage (absent included), 7-day delta, rail
\* delta and barge delta, compute_daily_risk's score, level and primary
\* driver equal the risk_score, risk_level and primary_driver of
\* generate_risk.
C18_SameScorerAsStated ==
    SameFeatures =>
        /\ res.total = out.risk_score
        /\ res.level = out.risk_level
        /\ res.primary = out.primary_driver

\* What holds instead (C18): score and level agree on the same features, and
\* so does the primary driver once some driver scored; when none scored the
\* backfill names "none" and the live scorer "river".
C18_SameButForNone ==
    SameFeatures =>
        /\ res.total = out.risk_score
        /\ res.level = out.risk_level
        /\ res.r_score = out.drivers[1].score
        /\ res.rr_score = out.drivers[2].score
        /\ res.b_score = out.drivers[3].score
        /\ DayHasScore => res.primary = out.primary_driver
        /\ ~DayHasScore => res.primary = "none" /\ out.primary_driver = "river"

\* A stage of 2.5 ft that did not move, a rail delta of +0.5 h and a barge
\* delta of -20: no rule fires in either scorer, and the two name different
\* primary drivers.
C18_Witness ==
    /\ SameFeatures
    /\ DocStage = 250 /\ DocRiverDelta = 0
    /\ DocRailDelta = 50 /\ DocBargeDelta = -20
    /\ res.total = 0 /\ out.risk_score = 0
    /\ res.primary = "none"
    /\ out.primary_driver = "river"

(***************************************************************************)
(* Claims about the 4-week deltas the monitors publish.                    *)
(***************************************************************************)

\* A monitor has written its status from a history that has rows.
BargePublished == pc = "exit" /\ locksFile # <<>>

RailPublished == pc = "exit" /\ RailSeries # {}

PublishedBarge == barge_status.d.locks_27.d

PublishedRail == rail_status.d.carriers.d.UP.d.metrics.d.terminal_dwell_hours.d

\* The day of the latest row of a series.
LatestDay(S) == DayNumber(LatestOf(S).week_end_date)

\* C19 as stated: the published 4-week delta of the barge lock count and of
\* the UP terminal dwell is the latest value minus the value as of 28 days
\* before the latest date, whatever weeks the history misses, and so equals
\* the delta the backfill computes for that date from the same history.
C19_LagDeltaAsStated ==
    /\ BargePublished =>
          /\ OnOrBefore(BargeSeries, LatestDay(BargeSeries) - 28) # {} =>
                PublishedBarge.delta_4w =
                    JNum(LatestOf(BargeSeries).total_barges
                         - ValueAsOf(BargeSeries, LatestDay(BargeSeries) - 28,
                                     "total_barges"))
          /\ PublishedBarge.delta_4w =
                JNum(delta_4w(load_barge_df(locksFile), LatestDay(BargeSeries),
                              "total_barges").delta)
    /\ RailPublished =>
          /\ OnOrBefore(RailSeries, LatestDay(RailSeries) - 28) # {} =>
                PublishedRail.delta_4w =
                    JNum(Sub(LatestOf(RailSeries).terminal_dwell_hours,
                             ValueAsOf(RailSeries, LatestDay(RailSeries) - 28,
                                       "terminal_dwell_hours")))
          /\ PublishedRail.delta_4w =
                JNum(delta_4w(load_rail_df(railFile), LatestDay(RailSeries),
                              "terminal_dwell_hours").delta)

\* The rows of the UP series that hold a number, by week.
ValidRail == carrier_rows(railFile, "UP", "terminal_dwell_hours")

\* What the monitors publish instead (C19): the latest row minus the fifth
\* row from the end, whatever the dates of the two; with fewer than five
\* rows the barge delta is 0.0 and the rail delta null.  Rows without a
\* dwell value do not count for rail.
C19_FifthRowFromEnd ==
    /\ BargePublished =>
          PublishedBarge.delta_4w =
              IF Len(locksFile) >= 5
              THEN JNum(locksFile[Len(locksFile)].total_barges
                        - locksFile[Len(locksFile) - 4].total_barges)
              ELSE JNum(0)
    /\ RailPublished =>
          PublishedRail.delta_4w =
              IF Len(ValidRail) >= 5
              THEN JNum(ValidRail[Len(ValidRail)].terminal_dwell_hours
                        - ValidRail[Len(ValidRail) - 4].terminal_dwell_hours)
              ELSE JNull

\* A barge history of five rows that misses the week before the latest one:
\* the fifth row from the end is 35 days old, the published delta is 15, and
\* the 28-day lag difference the backfill computes is 0.
C19_Witness ==
    /\ BargePublished
    /\ Len(locksFile) = 5
    /\ locksFile[5].week_end_date = WeekDate(MaxWeeks)
    /\ locksFile[4].week_end_date = WeekDate(MaxWeeks - 2)
    /\ locksFile[1].week_end_date = WeekDate(MaxWeeks - 5)
    /\ locksFile[1].total_barges = 295
    /\ locksFile[2].total_barges = 310
    /\ locksFile[5].total_barges = 310
    /\ PublishedBarge.delta_4w = JNum(15)
    /\ delta_4w(load_barge_df(locksFile), LatestDay(BargeSeries), "total_barges").delta = 0

=============================================================================
